---- MODULE Spec2Model ----
(***************************************************************************)
(* A model of monitor.py: the control loop run_experiment, the Device      *)
(* (safety gate, the two steady-state trackers, the idle retry loop and    *)
(* its process-exit hook) and the telemetry Reader as the source of        *)
(* readings.                                                               *)
(*                                                                         *)
(* One run of run_experiment for one speed is modelled.  Temperatures,     *)
(* reading times and wall-clock seconds are integers.                      *)
(***************************************************************************)
EXTENDS Integers, Sequences, FiniteSets, TLC

VARIABLES
    cfg,                     \* the arguments of run_experiment (immutable)
    check_init_steady,       \* run_experiment's local (argument, cleared at line 339)
    motor_activated,         \* run_experiment's local
    clock,                   \* wall-clock seconds since start_time at the last reading
    lines,                   \* number of readings the Reader has yielded
    row_time,                \* row["TIME"] of the last reading yielded
    logged,                  \* number of Logger.log_row calls
    pc,                      \* where the process is
    reason,                  \* why the loop ended
    terminated,              \* Device.terminated
    steady_history,          \* Device.steady_history       key -> <<time, temp>>*
    steady_last_check,       \* Device.steady_last_check    key -> time or None
    init_steady_history,     \* Device.init_steady_history
    init_steady_last_check,  \* Device.init_steady_last_check
    wheel_on_calls,          \* number of activate commands issued
    idle_calls,              \* number of idle commands issued (saturates)
    idle_ok,                 \* an idle command has exited with status 0
    signal,                  \* the signal delivered to the process, if any
    last,                    \* the last reading and what the loop body did on it
    fn_in, fn_out            \* argument and result of a function applied on its own

vars == <<cfg, check_init_steady, motor_activated, clock, lines, row_time, logged,
          pc, reason, terminated, steady_history, steady_last_check,
          init_steady_history, init_steady_last_check, wheel_on_calls,
          idle_calls, idle_ok, signal, last, fn_in, fn_out>>

(***************************************************************************)
(* Constants of the program and bounds of the model.                       *)
(***************************************************************************)
None == -1      \* Python's None, for the Optional arguments and last-check times

KEYS_TO_CHECK_THRESHOLD ==
    << "POWER_TMP2", "POWER_TMP3", "THERMO_X_TEMP", "THERMO_Z_TEMP",
       "THERMO_SP_TEMP", "THERMO_NSP_TEMP" >>

KEYS_TO_CHECK_STEADY ==
    << "THERMO_X_TEMP", "THERMO_Z_TEMP", "THERMO_SP_TEMP", "THERMO_NSP_TEMP" >>

SteadyKeys == { KEYS_TO_CHECK_STEADY[i] : i \in 1..Len(KEYS_TO_CHECK_STEADY) }

MaxReadings == 4      \* readings the telemetry source yields at most
MaxIdleCalls == 2     \* the count of idle commands saturates here
MaxClockStep == 2     \* wall-clock seconds between two readings, 1 to this

Threshold == 3        \* --threshold of the modelled runs
TimeLimit == 5        \* --time-limit of the modelled runs
DeferStart == 2       \* --defer-start, when set inside the time limit
SteadyWindow == 3     \* --steady-window, when set
SteadyCheckEvery == 2 \* --steady-check-every, when set
SteadyThreshold == 1  \* --steady-threshold, when set
SigmaSmall == 10      \* --steady-sigma in hundredths (0.10), when set

\* The reading time of the first reading; a timestamp may step back by one per
\* reading (see TimeSteps), so times stay non-negative and never equal None.
T0 == MaxReadings


(***************************************************************************)
(* The arguments of run_experiment.  An Optional argument is None or set.  *)
(***************************************************************************)
SteadySet ==
    [steady_window |-> SteadyWindow, steady_sigma |-> SigmaSmall,
     steady_threshold |-> SteadyThreshold, steady_check_every |-> SteadyCheckEvery]

SteadyConfigs ==
    { SteadySet,
      [SteadySet EXCEPT !.steady_window = None],
      [SteadySet EXCEPT !.steady_window = 0],
      [SteadySet EXCEPT !.steady_sigma = None],
      [SteadySet EXCEPT !.steady_threshold = None],
      [SteadySet EXCEPT !.steady_check_every = None],
      [steady_window |-> None, steady_sigma |-> None,
       steady_threshold |-> None, steady_check_every |-> None] }

Configs ==
    { [threshold |-> Threshold, time_limit |-> TimeLimit,
       speed |-> s, gimbal |-> g, defer_start |-> d,
       check_init_steady |-> cis,
       steady_window |-> st.steady_window, steady_sigma |-> st.steady_sigma,
       steady_threshold |-> st.steady_threshold,
       steady_check_every |-> st.steady_check_every] :
      s \in {None, 1}, g \in {None, 45},
      d \in {None, DeferStart, TimeLimit + 1}, cis \in BOOLEAN,
      st \in SteadyConfigs }

(***************************************************************************)
(* Readings.  A reading maps channel names to values and has a TIME.       *)
(***************************************************************************)
Get(r, key, default) == IF key \in DOMAIN r THEN r[key] ELSE default

AllChannels(v) ==
    [POWER_TMP1 |-> v, POWER_TMP2 |-> v, POWER_TMP3 |-> v,
     THERMO_X_TEMP |-> v, THERMO_Z_TEMP |-> v,
     THERMO_SP_TEMP |-> v, THERMO_NSP_TEMP |-> v]

Without(r, key) == [k \in DOMAIN r \ {key} |-> r[k]]

\* The channel values of the readings the telemetry source yields in a run.
Rows ==
    { AllChannels(0),
      [AllChannels(0) EXCEPT !.THERMO_Z_TEMP = Threshold - 1],
      [AllChannels(0) EXCEPT !.POWER_TMP3 = Threshold],
      Without(AllChannels(0), "THERMO_NSP_TEMP") }

\* Reading times: Reader.timestamp_to_seconds takes the digits after the
\* decimal point of str(float(seconds)) as microseconds, so "12.123456" is
\* followed by a smaller value for "12.200000", and it counts 30 days a month:
\* a reading's TIME may be below the one before it (see TimestampToSeconds).  A reading is one second before the last one or
\* SteadyCheckEvery seconds after it.
TimeSteps == {-1, SteadyCheckEvery}

(***************************************************************************)
(* Device.under_threshold                                                  *)
(***************************************************************************)
RECURSIVE UnderThresholdFrom(_, _, _)
UnderThresholdFrom(r, threshold, i) ==
    IF i > Len(KEYS_TO_CHECK_THRESHOLD) THEN TRUE
    ELSE IF Get(r, KEYS_TO_CHECK_THRESHOLD[i], 0) >= threshold THEN FALSE
    ELSE UnderThresholdFrom(r, threshold, i + 1)

\* As under_threshold, with > for >= at line 170.
UnderThresholdGt(r, threshold) ==
    \A i \in 1..Len(KEYS_TO_CHECK_THRESHOLD) :
        ~(Get(r, KEYS_TO_CHECK_THRESHOLD[i], 0) > threshold)

\* As under_threshold, with row[key] for row.get(key, 0): a reading without a
\* monitored channel does not pass.
UnderThresholdNoDefault(r, threshold) ==
    \A i \in 1..Len(KEYS_TO_CHECK_THRESHOLD) :
        /\ KEYS_TO_CHECK_THRESHOLD[i] \in DOMAIN r
        /\ r[KEYS_TO_CHECK_THRESHOLD[i]] < threshold

UnderThreshold(r, threshold) == UnderThresholdFrom(r, threshold, 1)

(***************************************************************************)
(* Device._check_steady                                                    *)
(***************************************************************************)
RECURSIVE SumSeq(_)
SumSeq(s) == IF s = <<>> THEN 0 ELSE Head(s) + SumSeq(Tail(s))

\* gaussian_filter1d(data, sigma): the kernel radius is int(4.0 * sigma + 0.5);
\* sigma is in hundredths here.
KernelRadius(sigma) == (4 * sigma + 50) \div 100

\* The kernel weights, in thousandths.  Radius 0 is the single weight 1;
\* radius 1 is exp(-0.5 * x^2 / sigma^2) normalised, rounded, for sigma = 0.30.
KernelScale == 1000
Kernel(sigma) ==
    IF KernelRadius(sigma) = 0 THEN << KernelScale >> ELSE << 4, 992, 4 >>

\* mode="reflect": (b a | a b c | c b)
Reflect(i, n) == IF i < 1 THEN 1 - i ELSE IF i > n THEN 2 * n + 1 - i ELSE i

\* The smoothed data, times KernelScale.
Smooth(data, sigma) ==
    LET w == Kernel(sigma)
        rad == (Len(w) - 1) \div 2
        n == Len(data)
    IN [i \in 1..n |->
          SumSeq([j \in 1..Len(w) |-> w[j] * data[Reflect(i + j - rad - 1, n)]])]

\* np.std(filtered) < threshold, for filtered given times scale:
\* the population variance is (n * sum(x^2) - sum(x)^2) / n^2.
StdBelow(filtered, scale, threshold) ==
    LET n == Len(filtered)
        s == SumSeq(filtered)
        q == SumSeq([i \in 1..n |-> filtered[i] * filtered[i]])
    IN /\ threshold > 0
       /\ n * q - s * s < threshold * threshold * scale * scale * n * n

\* while last_entry[0] - history[0][0] >= self.steady_window: history.popleft()
\* history[0] of an emptied deque raises IndexError.
RECURSIVE Evict(_, _, _)
Evict(history, last_time, window) ==
    IF history = <<>> THEN [raised |-> TRUE, history |-> history]
    ELSE IF last_time - history[1][1] >= window
         THEN Evict(Tail(history), last_time, window)
         ELSE [raised |-> FALSE, history |-> history]

\* As lines 201-204, without the test of the last-check time.
NotDueBySpanOnly(lc, time, span) == span < cfg.steady_check_every

\* lines 201-204: the channel is not evaluated on this call
NotDue(lc, time, span) ==
    \/ (lc # None /\ time - lc < cfg.steady_check_every)
    \/ span < cfg.steady_check_every

\* As line 221, were the time recorded only for a channel found steady.
LastCheckIfSteady(lc, time, std_ok) == IF std_ok THEN time ELSE lc

\* line 221: the last-check time after an evaluation
LastCheckAfter(lc, time, std_ok) == time

\* As line 228, with any for all.
AnySteady(steady) == \E k \in SteadyKeys : steady[k]

\* line 228
AllSteady(steady) == \A k \in SteadyKeys : steady[k]

\* One pass of the loop over KEYS_TO_CHECK_STEADY.  acc carries the tracker
\* as mutated so far; an exception ends the loop with the mutations made.
KeyStep(acc, r, key) ==
    IF acc.raised THEN acc
    ELSE IF key \notin DOMAIN r THEN [acc EXCEPT !.raised = TRUE]
    ELSE
      LET time == r["TIME"]
          history == Append(acc.history[key], <<time, r[key]>>)
          lc == acc.last_check[key]
          span == history[Len(history)][1] - history[1][1]
          appended == [acc EXCEPT !.history[key] = history]
      IN IF NotDue(lc, time, span)
         THEN appended
         ELSE IF cfg.steady_sigma = None
         THEN [appended EXCEPT !.raised = TRUE]
         ELSE
           LET data == [i \in 1..Len(history) |-> history[i][2]]
               std_ok == StdBelow(Smooth(data, cfg.steady_sigma), KernelScale,
                                  cfg.steady_threshold)
               ev == Evict(history, time, cfg.steady_window)
           IN [acc EXCEPT !.steady[key] = std_ok,
                          !.last_check[key] = LastCheckAfter(lc, time, std_ok),
                          !.history[key] = ev.history,
                          !.raised = ev.raised,
                          !.evaluated = @ \cup {key}]

RECURSIVE KeyLoop(_, _, _)
KeyLoop(acc, r, i) ==
    IF i > Len(KEYS_TO_CHECK_STEADY) THEN acc
    ELSE CHOOSE res \in { KeyLoop(next, r, i + 1) :
                            next \in {KeyStep(acc, r, KEYS_TO_CHECK_STEADY[i])} } : TRUE

\* As lines 181-185, with and for or.
SteadyDisabledWhenAllUnset ==
    /\ cfg.steady_window = None
    /\ cfg.steady_threshold = None
    /\ cfg.steady_check_every = None

\* lines 181-185
SteadyDisabled ==
    \/ cfg.steady_window = None
    \/ cfg.steady_threshold = None
    \/ cfg.steady_check_every = None

\* [ret, raised, history, last_check, evaluated]: the return value (when not
\* raised), the tracker after the call, and the channels evaluated on it (a
\* verdict was assigned at lines 214-219; gaussian_filter1d raises before that
\* when steady_sigma is None).
CheckSteady(r, history, last_check) ==
    IF SteadyDisabled
    THEN [ret |-> FALSE, raised |-> FALSE, history |-> history,
          last_check |-> last_check, evaluated |-> {}]
    ELSE
      CHOOSE res \in
        { [ret |-> ~acc.raised /\ AllSteady(acc.steady),
           raised |-> acc.raised, history |-> acc.history,
           last_check |-> acc.last_check, evaluated |-> acc.evaluated] :
          acc \in { KeyLoop([raised |-> FALSE, history |-> history,
                             last_check |-> last_check, evaluated |-> {},
                             steady |-> [k \in SteadyKeys |-> FALSE]], r, 1) } } :
        TRUE


(***************************************************************************)
(* run_experiment: the body of the loop, for one reading.                  *)
(***************************************************************************)
\* As line 314, were the gate checked after the deferral test of line 330.
ThresholdExceededAfterDeferral(r, el) ==
    /\ ~UnderThreshold(r, cfg.threshold)
    /\ (cfg.defer_start = None \/ el >= cfg.defer_start)

\* line 314
ThresholdExceeded(r, el) == ~UnderThreshold(r, cfg.threshold)

\* As line 323, with > for >=.
TimeLimitReachedGt(r, el) == el > cfg.time_limit

\* line 323
TimeLimitReached(r, el) == el >= cfg.time_limit

\* As line 330, with <= for <.
InDeferralInclusive(r, el) == cfg.defer_start # None /\ el <= cfg.defer_start

\* line 330
InDeferral(r, el) == cfg.defer_start # None /\ el < cfg.defer_start

\* As lines 333-341, without the assignment of line 339.
InitSteadyStepNoLatch(r, cis) ==
    IF ~cis
    THEN [called |-> FALSE, ret |-> FALSE, raised |-> FALSE,
          history |-> init_steady_history, last_check |-> init_steady_last_check,
          evaluated |-> {}, check_init_steady |-> cis]
    ELSE
      LET c == CheckSteady(r, init_steady_history, init_steady_last_check)
      IN [called |-> TRUE, ret |-> c.ret, raised |-> c.raised,
          history |-> c.history, last_check |-> c.last_check,
          evaluated |-> c.evaluated, check_init_steady |-> cis]

\* As lines 333-341, were the initial-steady check skipped when steady-state
\* checking is disabled.
InitSteadyStepSkippedWhenDisabled(r, cis) ==
    IF ~cis \/ SteadyDisabled
    THEN [called |-> FALSE, ret |-> FALSE, raised |-> FALSE,
          history |-> init_steady_history, last_check |-> init_steady_last_check,
          evaluated |-> {}, check_init_steady |-> cis]
    ELSE
      LET c == CheckSteady(r, init_steady_history, init_steady_last_check)
      IN [called |-> TRUE, ret |-> c.ret, raised |-> c.raised,
          history |-> c.history, last_check |-> c.last_check,
          evaluated |-> c.evaluated,
          check_init_steady |-> IF c.ret THEN FALSE ELSE cis]

\* lines 333-341: the call of check_init_steady and the latch of line 339
InitSteadyStep(r, cis) ==
    IF ~cis
    THEN [called |-> FALSE, ret |-> FALSE, raised |-> FALSE,
          history |-> init_steady_history, last_check |-> init_steady_last_check,
          evaluated |-> {}, check_init_steady |-> cis]
    ELSE
      LET c == CheckSteady(r, init_steady_history, init_steady_last_check)
      IN [called |-> TRUE, ret |-> c.ret, raised |-> c.raised,
          history |-> c.history, last_check |-> c.last_check,
          evaluated |-> c.evaluated,
          check_init_steady |-> IF c.ret THEN FALSE ELSE cis]

\* As lines 343-350, without the test of line 343.
ActivationStepEveryReading(ma, rc) ==
    IF cfg.speed # None \/ cfg.gimbal # None
    THEN IF ~(cfg.speed # None /\ cfg.gimbal # None)
         THEN [motor_activated |-> ma, wheel |-> 0, raised |-> TRUE]
         ELSE IF rc # 0
         THEN [motor_activated |-> ma, wheel |-> 1, raised |-> TRUE]
         ELSE [motor_activated |-> TRUE, wheel |-> 1, raised |-> FALSE]
    ELSE [motor_activated |-> TRUE, wheel |-> 0, raised |-> FALSE]

\* lines 343-350: [motor_activated, wheel, raised].  wheel is 1 when the activate
\* command is run; rc is its exit status (check=True raises on a non-zero one).
ActivationStep(ma, rc) ==
    IF ma THEN [motor_activated |-> TRUE, wheel |-> 0, raised |-> FALSE]
    ELSE IF cfg.speed # None \/ cfg.gimbal # None
    THEN IF ~(cfg.speed # None /\ cfg.gimbal # None)
         THEN [motor_activated |-> FALSE, wheel |-> 0, raised |-> TRUE]
         ELSE IF rc # 0
         THEN [motor_activated |-> FALSE, wheel |-> 1, raised |-> TRUE]
         ELSE [motor_activated |-> TRUE, wheel |-> 1, raised |-> FALSE]
    ELSE [motor_activated |-> TRUE, wheel |-> 0, raised |-> FALSE]

\* lines 352-358
PostSteadyStep(r) == CheckSteady(r, steady_history, steady_last_check)

\* What an iteration that does nothing more leaves behind.
Untouched(outcome) ==
    [outcome |-> outcome,
     check_init_steady |-> check_init_steady,
     motor_activated |-> motor_activated, act_reached |-> FALSE, wheel |-> 0,
     init_called |-> FALSE, init_ret |-> FALSE, init_evaluated |-> {},
     steady_called |-> FALSE, steady_ret |-> FALSE, steady_evaluated |-> {},
     ish |-> init_steady_history, islc |-> init_steady_last_check,
     sh |-> steady_history, slc |-> steady_last_check]

\* lines 314-358, for the reading r read el wall-clock seconds after start_time
\* and the exit status rc of the activate command, should it be run.
Iteration(r, el, rc) ==
    IF ThresholdExceeded(r, el) THEN Untouched("threshold_exceeded")
    ELSE IF TimeLimitReached(r, el) THEN Untouched("time_limit_reached")
    ELSE IF InDeferral(r, el) THEN Untouched("deferred")
    ELSE
      LET ini == InitSteadyStep(r, check_init_steady)
          afterInit ==
            [Untouched("init_not_steady") EXCEPT
               !.check_init_steady = ini.check_init_steady,
               !.init_called = ini.called, !.init_ret = ini.ret,
               !.init_evaluated = ini.evaluated,
               !.ish = ini.history, !.islc = ini.last_check]
      IN IF ini.raised THEN [afterInit EXCEPT !.outcome = "fault"]
         ELSE IF ini.called /\ ~ini.ret THEN afterInit
         ELSE
           LET act == ActivationStep(motor_activated, rc)
               afterAct == [afterInit EXCEPT
                              !.motor_activated = act.motor_activated,
                              !.act_reached = TRUE,
                              !.wheel = act.wheel]
           IN IF act.raised THEN [afterAct EXCEPT !.outcome = "fault"]
              ELSE
                LET st == PostSteadyStep(r)
                    afterSteady == [afterAct EXCEPT
                                      !.steady_called = TRUE,
                                      !.steady_ret = st.ret,
                                      !.steady_evaluated = st.evaluated,
                                      !.sh = st.history, !.slc = st.last_check]
                IN IF st.raised THEN [afterSteady EXCEPT !.outcome = "fault"]
                   ELSE IF st.ret
                   THEN [afterSteady EXCEPT !.outcome = "steady_state_reached"]
                   ELSE [afterSteady EXCEPT !.outcome = "continue"]

\* The control decisions lines 314-358 take on a reading, in order, for the
\* iteration it.
Decisions(it) ==
    <<"under_threshold">> \o
    (IF it.outcome = "threshold_exceeded" THEN <<>>
     ELSE <<"time_limit">> \o
       (IF it.outcome = "time_limit_reached" THEN <<>>
        ELSE <<"defer_start">> \o
          (IF it.outcome = "deferred" THEN <<>>
           ELSE (IF it.init_called THEN <<"check_init_steady">> ELSE <<>>) \o
                (IF it.act_reached THEN <<"activation">> ELSE <<>>) \o
                (IF it.steady_called THEN <<"check_steady">> ELSE <<>>))))

\* As lines 312-319, were log_row called after the gate and its break.
LogAfterGate(decisions) ==
    <<Head(decisions)>> \o
    (IF Len(decisions) > 1 THEN <<"log_row">> \o Tail(decisions) ELSE <<>>)

\* lines 312-358: log_row(row), then the decisions
BodySteps(decisions) == <<"log_row">> \o decisions

\* The number of log_row calls among the steps.
LogCalls(steps) == Cardinality({ i \in 1..Len(steps) : steps[i] = "log_row" })

LoopGoesOn(outcome) == outcome \in {"deferred", "init_not_steady", "continue"}

\* Where control is once the loop has ended with this outcome: a break, the end
\* of the source and every Exception (lines 360-361) lead to line 363.
AfterLoop(outcome) == "terminate"

(***************************************************************************)
(* The state after Device.__init__ and lines 305-307.                      *)
(***************************************************************************)
\* The monitored channels of reading r that are at or above the threshold.
Hot(r) ==
    { k \in { KEYS_TO_CHECK_THRESHOLD[i] : i \in 1..Len(KEYS_TO_CHECK_THRESHOLD) } :
        (IF k \in DOMAIN r THEN r[k] ELSE 0) >= cfg.threshold }

NoLast ==
    [outcome |-> "none", hot |-> {}, act_reached |-> FALSE, wheel |-> 0, rc |-> 0,
     steps |-> <<>>,
     init_called |-> FALSE, init_ret |-> FALSE, init_evaluated |-> {},
     steady_called |-> FALSE, steady_ret |-> FALSE, steady_evaluated |-> {}]

NoCall == [row |-> [TIME |-> 0], threshold |-> 0]

NoResult == [done |-> FALSE, value |-> FALSE]

InitRun(c) ==
    /\ cfg = c
    /\ check_init_steady = c.check_init_steady
    /\ motor_activated = FALSE
    /\ clock = 0
    /\ lines = 0
    /\ row_time = T0
    /\ logged = 0
    /\ pc = "loop"
    /\ reason = "none"
    /\ terminated = FALSE
    /\ steady_history = [k \in SteadyKeys |-> <<>>]
    /\ steady_last_check = [k \in SteadyKeys |-> None]
    /\ init_steady_history = [k \in SteadyKeys |-> <<>>]
    /\ init_steady_last_check = [k \in SteadyKeys |-> None]
    /\ wheel_on_calls = 0
    /\ idle_calls = 0
    /\ idle_ok = FALSE
    /\ signal = "none"
    /\ last = NoLast

Init ==
    /\ \E c \in Configs : InitRun(c)
    /\ fn_in = NoCall
    /\ fn_out = NoResult

(***************************************************************************)
(* The loop: one reading is yielded, logged and processed.                 *)
(***************************************************************************)
ReadRow ==
    /\ pc = "loop"
    /\ lines < MaxReadings
    /\ \E base \in Rows, dt \in TimeSteps, dc \in 1..MaxClockStep, rc \in {0, 1} :
       \E r \in {[TIME |-> row_time + dt] @@ base}, el \in {clock + dc} :
       \E it \in {Iteration(r, el, rc)} :
       \E steps \in {BodySteps(Decisions(it))} :
            /\ row_time' = r["TIME"]
            /\ clock' = el
            /\ lines' = lines + 1
            /\ logged' = logged + LogCalls(steps)
            /\ check_init_steady' = it.check_init_steady
            /\ motor_activated' = it.motor_activated
            /\ wheel_on_calls' = wheel_on_calls + it.wheel
            /\ init_steady_history' = it.ish
            /\ init_steady_last_check' = it.islc
            /\ steady_history' = it.sh
            /\ steady_last_check' = it.slc
            /\ last' = [outcome |-> it.outcome, hot |-> Hot(r), steps |-> steps,
                        act_reached |-> it.act_reached, wheel |-> it.wheel,
                        rc |-> IF it.wheel = 1 THEN rc ELSE 0,
                        init_called |-> it.init_called, init_ret |-> it.init_ret,
                        init_evaluated |-> it.init_evaluated,
                        steady_called |-> it.steady_called,
                        steady_ret |-> it.steady_ret,
                        steady_evaluated |-> it.steady_evaluated]
            /\ pc' = IF LoopGoesOn(it.outcome) THEN "loop" ELSE AfterLoop(it.outcome)
            /\ reason' = IF LoopGoesOn(it.outcome) THEN reason ELSE it.outcome
    /\ UNCHANGED <<cfg, terminated, idle_calls, idle_ok, signal, fn_in, fn_out>>

LoopVars == <<check_init_steady, motor_activated, clock, lines, row_time, logged,
              steady_history, steady_last_check, init_steady_history,
              init_steady_last_check, wheel_on_calls, last>>

\* The for loop ends: proc.stdout is at its end.
SourceExhausted ==
    /\ pc = "loop"
    /\ pc' = AfterLoop("source_exhausted")
    /\ reason' = "source_exhausted"
    /\ UNCHANGED <<cfg, terminated, idle_calls, idle_ok, signal, fn_in, fn_out>>
    /\ UNCHANGED LoopVars

\* Reader.read raises RuntimeError before the first reading (lines 124-128);
\* the except clause of line 360 catches it.
SourceFailsToStart ==
    /\ pc = "loop"
    /\ lines = 0
    /\ pc' = AfterLoop("source_error")
    /\ reason' = "source_error"
    /\ UNCHANGED <<cfg, terminated, idle_calls, idle_ok, signal, fn_in, fn_out>>
    /\ UNCHANGED LoopVars

\* Reader.parse raises on a line (json.loads, a missing field, a timestamp
\* that does not split): no reading is yielded; line 360 catches it.
ParseFault ==
    /\ pc = "loop"
    /\ pc' = AfterLoop("fault")
    /\ reason' = "fault"
    /\ UNCHANGED <<cfg, terminated, idle_calls, idle_ok, signal, fn_in, fn_out>>
    /\ UNCHANGED LoopVars

(***************************************************************************)
(* Device.terminate, called at line 363 and again by the exit hook that    *)
(* Device.__init__ registers (line 146).                                   *)
(***************************************************************************)
\* As line 231, were the loop left after one pass whatever the exit status.
TerminateLoopsNever(t) == FALSE

\* As line 231, were a pass of the loop made whatever terminated is.
TerminateLoopsAlways(t) == TRUE

\* line 231: the loop condition
TerminateLoops(t) == ~t

\* As lines 240-241, without the test of the exit status.
TerminateIterationAnyStatus(t, rc) == TRUE

\* lines 240-241: terminated after an idle command that exited with rc
TerminateIteration(t, rc) == IF rc = 0 THEN TRUE ELSE t

Min(a, b) == IF a < b THEN a ELSE b

RunVars == <<cfg, check_init_steady, motor_activated, clock, lines, row_time, logged,
             reason, steady_history, steady_last_check, init_steady_history,
             init_steady_last_check, wheel_on_calls, last, fn_in, fn_out>>

\* One pass of the while loop: an idle command is run and its status read.
IdleAttempt ==
    /\ pc \in {"terminate", "atexit"}
    /\ TerminateLoops(terminated)
    /\ \E rc \in {0, 1} :
         /\ terminated' = TerminateIteration(terminated, rc)
         /\ idle_ok' = (idle_ok \/ rc = 0)
    /\ idle_calls' = Min(idle_calls + 1, MaxIdleCalls)
    /\ UNCHANGED <<pc, signal>>
    /\ UNCHANGED RunVars

\* terminate returns to line 363, and run_experiment returns.
TerminateReturn ==
    /\ pc = "terminate"
    /\ ~TerminateLoops(terminated)
    /\ pc' = "returned"
    /\ UNCHANGED <<terminated, idle_calls, idle_ok, signal>>
    /\ UNCHANGED RunVars

\* run_experiment, called: from the loop to its return.
Next ==
    \/ ReadRow
    \/ SourceExhausted
    \/ SourceFailsToStart
    \/ ParseFault
    \/ IdleAttempt
    \/ TerminateReturn

Spec == Init /\ [][Next]_vars

(***************************************************************************)
(* The process: run_experiment, then the interpreter's exit with the hook  *)
(* of line 146, and external interruption.                                 *)
(***************************************************************************)
\* main returns and the interpreter runs the exit hooks: terminate again.
MainReturns ==
    /\ pc = "returned"
    /\ pc' = "atexit"
    /\ UNCHANGED <<terminated, idle_calls, idle_ok, signal>>
    /\ UNCHANGED RunVars

\* The exit hook returns and the process ends.
AtexitReturn ==
    /\ pc = "atexit"
    /\ ~TerminateLoops(terminated)
    /\ pc' = "exited"
    /\ UNCHANGED <<terminated, idle_calls, idle_ok, signal>>
    /\ UNCHANGED RunVars

\* SIGINT: KeyboardInterrupt is no Exception, so line 360 does not catch it
\* and line 363 is skipped; the interpreter exits and runs the exit hooks.
KeyboardInterrupt ==
    /\ pc \in {"loop", "terminate", "returned"}
    /\ signal = "none"
    /\ signal' = "SIGINT"
    /\ pc' = "atexit"
    /\ UNCHANGED <<terminated, idle_calls, idle_ok>>
    /\ UNCHANGED RunVars

\* SIGTERM: the program installs no handler, the process ends at once and
\* no exit hook runs.
Killed ==
    /\ pc \in {"loop", "terminate", "returned", "atexit"}
    /\ signal' = "SIGTERM"
    /\ pc' = "exited"
    /\ UNCHANGED <<terminated, idle_calls, idle_ok>>
    /\ UNCHANGED RunVars

ProcNext ==
    \/ Next
    \/ MainReturns
    \/ AtexitReturn
    \/ KeyboardInterrupt
    \/ Killed

ProcSpec == Init /\ [][ProcNext]_vars


\* The process without steady-state parameters; the program runs on (it is
\* sequential: a pass of the while loop and a return are taken when they can be).
FairInit ==
    /\ \E c \in Configs :
         /\ InitRun(c)
         /\ c.steady_window = None /\ c.steady_sigma = None
         /\ c.steady_threshold = None /\ c.steady_check_every = None
    /\ fn_in = NoCall
    /\ fn_out = NoResult

FairSpec ==
    /\ FairInit
    /\ [][ProcNext]_vars
    /\ WF_vars(IdleAttempt)
    /\ WF_vars(TerminateReturn)
    /\ WF_vars(AtexitReturn)

(***************************************************************************)
(* Device.under_threshold applied on its own to a reading and a threshold. *)
(***************************************************************************)
MonitoredKeys ==
    { KEYS_TO_CHECK_THRESHOLD[i] : i \in 1..Len(KEYS_TO_CHECK_THRESHOLD) }

GateThresholds == {0, Threshold}

\* Every channel is absent (None here), below zero, or just below, at or just
\* above the threshold of the runs; POWER_TMP1 is a channel that is not
\* monitored.
GateRows ==
    { [k \in { x \in MonitoredKeys \cup {"POWER_TMP1"} : g[x] # None } |-> g[k]]
        @@ [TIME |-> T0] :
      g \in { f \in [MonitoredKeys \cup {"POWER_TMP1"} ->
                       {None, -2, Threshold - 1, Threshold, Threshold + 1}] :
                f["POWER_TMP1"] \in {None, Threshold + 1} } }

GateInit ==
    /\ \E c \in Configs :
         /\ InitRun(c)
         /\ c.speed = None /\ c.gimbal = None /\ c.defer_start = None
         /\ ~c.check_init_steady
         /\ c.steady_window = None /\ c.steady_sigma = None
    /\ fn_in \in [row : GateRows, threshold : GateThresholds]
    /\ fn_out = NoResult

GateCall ==
    /\ ~fn_out.done
    /\ fn_out' = [done |-> TRUE,
                  value |-> UnderThreshold(fn_in.row, fn_in.threshold)]
    /\ UNCHANGED <<cfg, pc, terminated, idle_calls, idle_ok, signal, reason, fn_in>>
    /\ UNCHANGED LoopVars

GateSpec == GateInit /\ [][GateCall]_vars

(***************************************************************************)
(* Reader.timestamp_to_seconds applied on its own to two timestamps.       *)
(* A timestamp YYYY-MM-DDTHH:MM:SS.ffffff is the record of its fields,     *)
(* micro the six digits ffffff as a number; seconds are in microseconds.   *)
(***************************************************************************)
Million == 1000000

\* int() of the digits after the point of str(float("SS.ffffff")): the
\* shortest representation drops the trailing zeros of ffffff ("12.200000" is
\* 12.2, "12.000000" is 12.0).
RECURSIVE FractionDigits(_)
FractionDigits(micro) ==
    IF micro = 0 THEN 0
    ELSE IF micro % 10 = 0 THEN FractionDigits(micro \div 10)
    ELSE micro

\* str() of a float below 0.0001 is in exponent notation ("5e-05"), and line 94
\* raises ValueError on it.
ExponentForm(ts) == ts.second = 0 /\ ts.micro > 0 /\ ts.micro < 100

\* lines 91-100: [raised, minutes, micros].  total_seconds is
\* minutes * 60 + micros / Million, kept in two parts (micros is below
\* 60 * Million) since the whole exceeds the integers of the model checker.
\* (The result is a float; rounding to it keeps the order of two values, up
\* to equality.)
TimestampToSeconds(ts) ==
    IF ExponentForm(ts) THEN [raised |-> TRUE, minutes |-> 0, micros |-> 0]
    ELSE [raised |-> FALSE,
          minutes |->
            ((ts.year * 365 + ts.month * 30 + ts.day) * 24 + ts.hour) * 60
              + ts.minute,
          micros |-> ts.second * Million + FractionDigits(ts.micro)]

\* Well-formed timestamps: the last and first days of months, the last and
\* first seconds of a minute, microsecond fields with and without trailing
\* zeros.
Timestamps ==
    { ts \in [year : {2025, 2026}, month : {1, 2, 12}, day : {1, 28, 31},
              hour : {0, 23}, minute : {59}, second : {0, 12},
              micro : {0, 50, 123456, 200000}] :
        ts.month = 2 => ts.day <= 28 }

TsInit ==
    /\ \E c \in Configs :
         /\ InitRun(c)
         /\ c.speed = None /\ c.gimbal = None /\ c.defer_start = None
         /\ ~c.check_init_steady
         /\ c.steady_window = None /\ c.steady_sigma = None
    /\ fn_in \in [a : Timestamps, b : Timestamps]
    /\ fn_out = NoResult

TsCall ==
    /\ ~fn_out.done
    /\ fn_out' = [done |-> TRUE,
                  value |-> << TimestampToSeconds(fn_in.a),
                               TimestampToSeconds(fn_in.b) >>]
    /\ UNCHANGED <<cfg, pc, terminated, idle_calls, idle_ok, signal, reason, fn_in>>
    /\ UNCHANGED LoopVars

TsSpec == TsInit /\ [][TsCall]_vars


(***************************************************************************)
(* Properties.                                                             *)
(***************************************************************************)
\* This step is the loop body run on one more reading.
ReadStep == lines' = lines + 1

TrackersUnchanged ==
    UNCHANGED <<steady_history, steady_last_check,
                init_steady_history, init_steady_last_check>>

NoTrackerCall == ~last'.init_called /\ ~last'.steady_called

BothWheelArgs == cfg.speed # None /\ cfg.gimbal # None
NoWheelArgs == cfg.speed = None /\ cfg.gimbal = None
PartialWheelArgs == ~BothWheelArgs /\ ~NoWheelArgs

\* C1: a reading with a monitored channel at or above the threshold stops the
\* run on that reading, whatever else is pending: no activate command is
\* issued and no tracker is called or changed on it.
C1_SafetyTripPreempts ==
    [][ (ReadStep /\ last'.hot # {}) =>
          /\ pc' = "terminate"
          /\ reason' = "threshold_exceeded"
          /\ wheel_on_calls' = wheel_on_calls
          /\ NoTrackerCall
          /\ TrackersUnchanged
          /\ UNCHANGED <<motor_activated, check_init_steady>> ]_vars

\* A threshold stop inside the deferral window, past the time limit, with the
\* initial-steady check pending and the motor not activated.
C1_Witness ==
    /\ reason = "threshold_exceeded"
    /\ last.hot # {}
    /\ cfg.defer_start # None /\ clock < cfg.defer_start
    /\ clock >= cfg.time_limit
    /\ check_init_steady
    /\ ~motor_activated
    /\ lines >= 2

StopReasons ==
    {"threshold_exceeded", "time_limit_reached", "steady_state_reached",
     "source_exhausted", "source_error", "fault"}

\* C2: once the loop has ended, for any of the stop reasons or by a fault,
\* run_experiment is in Device.terminate or has returned, and it has returned
\* only after an idle command exited with status 0.
C2_IdleOnEveryPath ==
    /\ reason \in StopReasons <=> pc \in {"terminate", "returned"}
    /\ pc = "terminate" /\ ~idle_ok => TerminateLoops(terminated)
    /\ pc = "returned" => idle_ok /\ idle_calls >= 1

\* The activate command failed, the fault was caught, and run_experiment
\* returned after a failed and a successful idle command.
C2_Witness ==
    /\ pc = "returned"
    /\ reason = "fault"
    /\ last.wheel = 1 /\ last.rc # 0
    /\ idle_calls >= 2
    /\ idle_ok

\* C3: when the process is gone after the activate command was issued, an idle
\* command has been issued.
C3_IdleBeforeExit ==
    (pc = "exited" /\ wheel_on_calls >= 1) => idle_calls >= 1

InTerminate == pc \in {"terminate", "atexit"}

\* C4: terminate does not return while terminated is false: after a failed
\* idle command only another idle command can follow; and once an idle
\* command has exited with status 0, terminate returns with terminated true
\* (or the process is killed).
C4_TerminateRetries ==
    /\ [][ (InTerminate /\ ~InTerminate' /\ signal' = signal) => terminated ]_vars
    /\ [][ (InTerminate /\ ~terminated /\ signal' = signal) =>
              (InTerminate' /\ pc' = pc /\ (terminated' => idle_ok')) ]_vars
    /\ [](InTerminate /\ ~terminated => ENABLED IdleAttempt)
    /\ (pc = "terminate" /\ idle_ok) ~>
          ((pc = "returned" /\ terminated) \/ signal # "none")
    /\ (pc = "atexit" /\ idle_ok) ~> (pc = "exited")

\* terminate has returned after at least one failed idle command.
C4_Witness ==
    /\ pc = "returned"
    /\ terminated
    /\ idle_calls >= 2
    /\ signal = "none"

\* C5: with exactly one of speed and gimbal configured no reading is read or
\* logged.
C5_ConfigErrorBeforeLoop ==
    PartialWheelArgs => (lines = 0 /\ logged = 0)

\* C6: under_threshold returns true exactly when every monitored channel, an
\* absent one counted as 0, is below the threshold; a channel that is not
\* monitored does not change the result.
C6_GateIsAllBelow ==
    fn_out.done =>
      /\ fn_out.value <=>
           \A k \in MonitoredKeys :
              (IF k \in DOMAIN fn_in.row THEN fn_in.row[k] ELSE 0) < fn_in.threshold
      /\ \A v \in {Threshold - 1, Threshold + 1} :
           UnderThreshold([POWER_TMP1 |-> v] @@ fn_in.row, fn_in.threshold)
             = fn_out.value

\* A single monitored channel exactly at the threshold, another one absent:
\* the gate fails.
C6_Witness ==
    /\ fn_out.done
    /\ ~fn_out.value
    /\ fn_in.threshold > 0
    /\ Cardinality({ k \in MonitoredKeys \cap DOMAIN fn_in.row :
                       fn_in.row[k] >= fn_in.threshold }) = 1
    /\ \E k \in MonitoredKeys \cap DOMAIN fn_in.row : fn_in.row[k] = fn_in.threshold
    /\ \E k \in MonitoredKeys : k \notin DOMAIN fn_in.row

DeferredWheelRun ==
    cfg.defer_start # None /\ BothWheelArgs /\ ~cfg.check_init_steady

\* This reading is the first one read at or after defer_start.
FirstPastDefer ==
    clock' >= cfg.defer_start /\ (lines = 0 \/ clock < cfg.defer_start)

\* C7: with defer_start, speed and gimbal set and no initial-steady check, the
\* activate command is issued on the first reading at or after defer_start
\* that passes the gate and the time limit, and on no other reading; a
\* reading inside the window calls and changes no tracker and leaves
\* motor_activated false.
C7_DeferredActivation ==
    [][ (ReadStep /\ DeferredWheelRun) =>
          /\ wheel_on_calls' = wheel_on_calls + 1 <=>
               (FirstPastDefer /\ last'.hot = {} /\ clock' < cfg.time_limit)
          /\ wheel_on_calls' \in {wheel_on_calls, wheel_on_calls + 1}
          /\ clock' < cfg.defer_start =>
               /\ NoTrackerCall
               /\ TrackersUnchanged
               /\ ~motor_activated'
               /\ wheel_on_calls' = wheel_on_calls ]_vars

\* The first reading was inside the window, the second one activated the wheel.
C7_Witness ==
    /\ DeferredWheelRun
    /\ lines = 2
    /\ last.wheel = 1
    /\ wheel_on_calls = 1
    /\ motor_activated
    /\ clock >= cfg.defer_start

\* C8: a reading that passes the gate at or after time_limit stops the run
\* with the time limit reached, also inside the deferral window or with the
\* initial-steady check pending; no activate command, no tracker call on it,
\* and no reading after it.
C8_TimeLimitStops ==
    /\ [][ ReadStep =>
             /\ (last'.hot = {} /\ clock' >= cfg.time_limit) =>
                  /\ reason' = "time_limit_reached"
                  /\ pc' = "terminate"
                  /\ wheel_on_calls' = wheel_on_calls
                  /\ NoTrackerCall
                  /\ TrackersUnchanged
                  /\ UNCHANGED <<motor_activated, check_init_steady>>
             /\ reason' = "time_limit_reached" =>
                  (last'.hot = {} /\ clock' >= cfg.time_limit) ]_vars
    /\ [][ pc # "loop" => UNCHANGED <<lines, logged, reason>> ]_vars

\* The time limit stops the run inside the deferral window with the
\* initial-steady check pending.
C8_Witness ==
    /\ reason = "time_limit_reached"
    /\ cfg.defer_start # None /\ clock < cfg.defer_start
    /\ check_init_steady
    /\ ~motor_activated
    /\ pc = "returned"

\* C9 as stated: the activate command is issued at most once and only with
\* speed and gimbal both configured; motor_activated is set on the first
\* reading that reaches the activation step, and is never cleared.  The runs
\* with exactly one of speed and gimbal configured, where the assertion of
\* line 345 raises at the step, are left aside here.
C9_FlagSetOnReachingActivation ==
    /\ [](wheel_on_calls <= 1 /\ (wheel_on_calls = 1 => BothWheelArgs))
    /\ [][ (ReadStep /\ last'.act_reached /\ ~PartialWheelArgs) =>
             motor_activated' ]_vars
    /\ [][ motor_activated => motor_activated' ]_vars

\* C9, amended: the activate command is issued at most once and only with
\* speed and gimbal both configured; a reading that reaches the activation
\* step sets motor_activated unless the step raises (exactly one of speed and
\* gimbal configured, or the activate command exits with a non-zero status);
\* motor_activated is never cleared.
C9_FlagSetUnlessActivationRaises ==
    /\ [](wheel_on_calls <= 1 /\ (wheel_on_calls = 1 => BothWheelArgs))
    /\ [][ ReadStep =>
             /\ last'.act_reached =>
                  (motor_activated' <=>
                     \/ motor_activated
                     \/ NoWheelArgs
                     \/ (BothWheelArgs /\ last'.wheel = 1 /\ last'.rc = 0))
             /\ ~last'.act_reached => motor_activated' = motor_activated
             /\ last'.wheel = 1 => (last'.act_reached /\ ~motor_activated) ]_vars
    /\ [][ motor_activated => motor_activated' ]_vars

\* The wheel was activated on an earlier reading; a later reading reached the
\* activation step again and issued no command.
C9_Witness ==
    /\ wheel_on_calls = 1
    /\ motor_activated
    /\ lines >= 3
    /\ last.act_reached
    /\ last.wheel = 0

\* C10: the post-activation tracker is called and changed only on readings on
\* which motor_activated is true at the call; the pre-activation tracker is
\* not called or changed once motor_activated is true; check_init_steady is
\* called only while the flag is set, and the flag, cleared when the call
\* returns true, stays cleared.
C10_TrackerPhases ==
    [][ /\ ReadStep =>
             /\ (last'.steady_called
                   \/ steady_history' # steady_history
                   \/ steady_last_check' # steady_last_check) => motor_activated'
             /\ motor_activated =>
                  /\ ~last'.init_called
                  /\ UNCHANGED <<init_steady_history, init_steady_last_check>>
             /\ last'.init_called => check_init_steady
             /\ (last'.init_called /\ last'.init_ret) => ~check_init_steady'
             /\ ~last'.init_called =>
                  UNCHANGED <<init_steady_history, init_steady_last_check>>
        /\ ~ReadStep => TrackersUnchanged
        /\ ~check_init_steady => ~check_init_steady' ]_vars

\* The initial-steady check returned true on an earlier reading; this reading
\* went to the post-activation tracker only.
C10_Witness ==
    /\ cfg.check_init_steady
    /\ ~check_init_steady
    /\ motor_activated
    /\ last.steady_called
    /\ ~last.init_called
    /\ steady_history # [k \in SteadyKeys |-> <<>>]
    /\ lines >= 3

\* The earliest buffered time of a channel once a reading of time t is appended.
FirstTime(h, t) == IF h = <<>> THEN t ELSE h[1][1]

\* One channel of one tracker over one call on a reading of time t: h and lc
\* are the channel's history and last-check time before the call, lc2 the
\* last-check time after it, ev whether the channel was evaluated on the
\* call, ret whether the call returned true.
RateLimited(h, lc, lc2, ev, ret, t) ==
    /\ (t - FirstTime(h, t) < cfg.steady_check_every) => (~ev /\ ~ret)
    /\ (ev /\ lc = None) => lc2 = t
    /\ (ev /\ lc # None) => t - lc >= cfg.steady_check_every
    /\ ev => lc2 = t
    /\ ~ev => lc2 = lc

\* C11: for each tracker and channel, on every call: while the buffered span
\* is below steady_check_every the channel is not evaluated and the call does
\* not return true; the first evaluation records the reading's time as the
\* last-check time; two successive evaluations of a channel are at least
\* steady_check_every seconds of reading time apart (the last-check time is
\* the time of the last evaluation and changes on nothing else).
C11_RateLimitedEvaluation ==
    [][ ReadStep =>
          \A k \in SteadyKeys :
            /\ (last'.init_called /\ ~SteadyDisabled) =>
                  RateLimited(init_steady_history[k], init_steady_last_check[k],
                              init_steady_last_check'[k],
                              k \in last'.init_evaluated, last'.init_ret,
                              row_time')
            /\ (last'.steady_called /\ ~SteadyDisabled) =>
                  RateLimited(steady_history[k], steady_last_check[k],
                              steady_last_check'[k],
                              k \in last'.steady_evaluated, last'.steady_ret,
                              row_time') ]_vars

\* The buffered span has reached steady_check_every, but the channel was
\* evaluated less than steady_check_every seconds ago: no evaluation.
C11_Witness ==
    /\ last.steady_called
    /\ last.steady_evaluated = {}
    /\ reason = "none"
    /\ \A k \in SteadyKeys :
          /\ steady_last_check[k] # None
          /\ row_time - steady_last_check[k] < cfg.steady_check_every
          /\ steady_history[k] # <<>>
          /\ row_time - steady_history[k][1][1] >= cfg.steady_check_every

\* One channel after a call that evaluated it on a reading of time t: the
\* buffer h2 holds the reading just appended, and t is no more than
\* steady_window after the earliest time buffered.
WindowKept(h2, t) ==
    /\ h2 # <<>>
    /\ h2[Len(h2)][1] = t
    /\ \A i \in 1..Len(h2) : t - h2[i][1] <= cfg.steady_window

\* C12: for every configured steady_window, after a channel has been
\* evaluated and its front entries evicted, the buffer spans no more than
\* steady_window and still holds the reading just appended.
C12_SpanWithinWindow ==
    [][ ReadStep =>
          \A k \in SteadyKeys :
            /\ k \in last'.init_evaluated =>
                  WindowKept(init_steady_history'[k], row_time')
            /\ k \in last'.steady_evaluated =>
                  WindowKept(steady_history'[k], row_time') ]_vars

\* One of steady_window, steady_threshold, steady_check_every is unset.
SteadyParamUnset ==
    \E p \in {cfg.steady_window, cfg.steady_threshold, cfg.steady_check_every} :
        p = None

\* C13: with one of steady_window, steady_threshold, steady_check_every unset,
\* every call of check_steady and check_init_steady returns false (it does
\* not raise either) and leaves the histories and last-check times of both
\* trackers unchanged, and the run never stops for steady state.
C13_DisabledMode ==
    /\ [][ (ReadStep /\ SteadyParamUnset) =>
             /\ ~last'.init_ret /\ ~last'.steady_ret
             /\ last'.init_evaluated = {} /\ last'.steady_evaluated = {}
             /\ TrackersUnchanged
             /\ last'.init_called => last'.outcome = "init_not_steady"
             /\ last'.steady_called => last'.outcome = "continue" ]_vars
    /\ [](SteadyParamUnset =>
            /\ reason # "steady_state_reached"
            /\ \A k \in SteadyKeys :
                 /\ steady_history[k] = <<>> /\ steady_last_check[k] = None
                 /\ init_steady_history[k] = <<>>
                 /\ init_steady_last_check[k] = None)

\* Only steady_check_every is unset; check_steady was called on three readings.
C13_Witness ==
    /\ cfg.steady_check_every = None
    /\ cfg.steady_window # None /\ cfg.steady_threshold # None
    /\ cfg.steady_sigma # None
    /\ last.steady_called
    /\ lines = 3
    /\ cfg.defer_start = None /\ ~cfg.check_init_steady
    /\ reason = "none"

\* C14: every reading the source yields is logged exactly once, before any
\* control decision on it and also when it stops the run; nothing else is
\* logged, and every decision is taken on a logged reading.
C14_LoggedBeforeDecisions ==
    /\ [][ ReadStep =>
             /\ logged' = logged + 1
             /\ Len(last'.steps) >= 2
             /\ last'.steps[1] = "log_row"
             /\ \A i \in 2..Len(last'.steps) : last'.steps[i] # "log_row" ]_vars
    /\ [][ logged' # logged => ReadStep ]_vars
    /\ [](logged = lines)

\* The second reading tripped the threshold and was logged before the gate.
C14_Witness ==
    /\ reason = "threshold_exceeded"
    /\ lines = 2
    /\ logged = 2
    /\ last.steps = <<"log_row", "under_threshold">>

\* C15: once terminate has seen an idle command succeed (terminated is set),
\* terminated stays set and no call of terminate, the exit hook's included,
\* issues another idle command; a run stopped by a threshold trip whose first
\* idle command succeeds has issued exactly one when the process is gone.
C15_IdleOnce ==
    /\ [][ terminated => (terminated' /\ idle_calls' = idle_calls) ]_vars
    /\ [][ (reason = "threshold_exceeded" /\ idle_calls = 1 /\ idle_ok) =>
             idle_calls' = 1 ]_vars
    /\ [](terminated <=> idle_ok)

\* A threshold trip, one idle command, which succeeded; the exit hook has run
\* and the process is gone.
C15_Witness ==
    /\ pc = "exited"
    /\ signal = "none"
    /\ reason = "threshold_exceeded"
    /\ terminated
    /\ idle_calls = 1

\* The values a channel's buffer held when it was evaluated: those buffered
\* before the call (h) and the one the call appended (the last entry of h2).
ValuesAtEvaluation(h, h2) ==
    [i \in 1..(Len(h) + 1) |-> IF i <= Len(h) THEN h[i][2] ELSE h2[Len(h2)][2]]

\* The smoothed standard deviation of these values is below steady_threshold.
SmoothedStdBelow(h, h2) ==
    StdBelow(Smooth(ValuesAtEvaluation(h, h2), cfg.steady_sigma), KernelScale,
             cfg.steady_threshold)

\* A call that returned: it returned true exactly when all four channels were
\* evaluated on it and each one's smoothed standard deviation is below
\* steady_threshold.
TrueExactlyWhenAllSteady(ret, evaluated, hist, hist2) ==
    ret <=> /\ evaluated = SteadyKeys
            /\ \A k \in SteadyKeys : SmoothedStdBelow(hist[k], hist2[k])

\* C16: a call of _check_steady returns true exactly when every one of the
\* four channels was evaluated on that call and each smoothed standard
\* deviation is strictly below steady_threshold; a call on which no channel
\* was due returns false, whatever earlier calls found.
C16_TrueIffAllEvaluatedSteady ==
    [][ (ReadStep /\ ~SteadyDisabled) =>
          /\ (last'.init_called
                 /\ (last'.outcome # "fault" \/ last'.act_reached)) =>
                TrueExactlyWhenAllSteady(last'.init_ret, last'.init_evaluated,
                                         init_steady_history, init_steady_history')
          /\ (last'.steady_called /\ last'.outcome # "fault") =>
                TrueExactlyWhenAllSteady(last'.steady_ret, last'.steady_evaluated,
                                         steady_history, steady_history')
          /\ last'.init_evaluated = {} => ~last'.init_ret
          /\ last'.steady_evaluated = {} => ~last'.steady_ret ]_vars

\* check_steady evaluated all four channels on the third reading or later and
\* returned true.
C16_Witness ==
    /\ reason = "steady_state_reached"
    /\ last.steady_ret
    /\ last.steady_evaluated = SteadyKeys
    /\ lines >= 3

\* The fields of a timestamp, most significant first.
Fields(ts) ==
    << ts.year, ts.month, ts.day, ts.hour, ts.minute, ts.second, ts.micro >>

\* Timestamp a is not later than timestamp b in calendar time.
NotLater(a, b) ==
    \/ Fields(a) = Fields(b)
    \/ \E i \in 1..7 :
         /\ Fields(a)[i] < Fields(b)[i]
         /\ \A j \in 1..(i - 1) : Fields(a)[j] = Fields(b)[j]

\* total_seconds x is not greater than total_seconds y.
SecondsNotGreater(x, y) ==
    \/ x.minutes < y.minutes
    \/ (x.minutes = y.minutes /\ x.micros <= y.micros)

\* C17: for two well-formed timestamps, the first not later than the second
\* in calendar time, timestamp_to_seconds of the first is not greater than
\* that of the second (on timestamps for which it returns a value).
C17_TimeNonDecreasing ==
    (fn_out.done /\ NotLater(fn_in.a, fn_in.b)
       /\ ~fn_out.value[1].raised /\ ~fn_out.value[2].raised) =>
      SecondsNotGreater(fn_out.value[1], fn_out.value[2])

\* Every monitored channel present in the reading is below the threshold.
PresentChannelsBelow ==
    \A k \in MonitoredKeys \cap DOMAIN fn_in.row : fn_in.row[k] < fn_in.threshold

\* C18 as stated: for every threshold, a reading whose present monitored
\* channels are all below the threshold passes under_threshold, whichever
\* monitored channels are missing.
C18_AbsentNeverTrips ==
    (fn_out.done /\ PresentChannelsBelow) => fn_out.value

\* C18, amended: the same for every threshold greater than 0.
C18_AbsentNeverTripsPositive ==
    (fn_out.done /\ fn_in.threshold > 0 /\ PresentChannelsBelow) => fn_out.value

\* A reading without two of the monitored channels, the others below a
\* positive threshold, passed.
C18_Witness ==
    /\ fn_out.done
    /\ fn_out.value
    /\ fn_in.threshold > 0
    /\ Cardinality(MonitoredKeys \ DOMAIN fn_in.row) = 2
    /\ \E k \in MonitoredKeys \cap DOMAIN fn_in.row : fn_in.row[k] = fn_in.threshold - 1

\* The timestamps a channel's history holds, in order.
Times(h) == [i \in 1..Len(h) |-> h[i][1]]

\* The channels of a tracker hold the same timestamps and the same
\* last-check time.
LockStep(history, last_check) ==
    \A k1, k2 \in SteadyKeys :
        /\ Times(history[k1]) = Times(history[k2])
        /\ last_check[k1] = last_check[k2]

AllOrNone(evaluated) == evaluated \in {{}, SteadyKeys}

\* C19: after every call of _check_steady that returned, the channels of the
\* tracker hold the same timestamps and the same last-check time, and the
\* call evaluated all four channels or none; a tracker that is to be called
\* again is in lock-step.
C19_ChannelsInLockStep ==
    /\ [][ ReadStep =>
             /\ (last'.init_called
                    /\ (last'.outcome # "fault" \/ last'.act_reached)) =>
                   /\ LockStep(init_steady_history', init_steady_last_check')
                   /\ AllOrNone(last'.init_evaluated)
             /\ (last'.steady_called /\ last'.outcome # "fault") =>
                   /\ LockStep(steady_history', steady_last_check')
                   /\ AllOrNone(last'.steady_evaluated) ]_vars
    /\ [](pc = "loop" =>
            /\ LockStep(init_steady_history, init_steady_last_check)
            /\ LockStep(steady_history, steady_last_check))

\* All four channels were evaluated on the same reading, one of them with
\* values that differ from the others', and the run goes on.
C19_Witness ==
    /\ pc = "loop"
    /\ last.steady_evaluated = SteadyKeys
    /\ steady_last_check["THERMO_Z_TEMP"] = row_time
    /\ Len(steady_history["THERMO_Z_TEMP"]) >= 2
    /\ steady_history["THERMO_Z_TEMP"] # steady_history["THERMO_X_TEMP"]

\* C20: with the initial-steady check enabled and one of steady_window,
\* steady_threshold, steady_check_every unset, the latch is never released:
\* no activate command is issued, motor_activated stays false, the
\* post-activation tracker is never called, and the run ends only by
\* threshold trip, time limit, source exhaustion or a fault.
C20_LatchNeverReleased ==
    (cfg.check_init_steady /\ SteadyParamUnset) =>
      /\ check_init_steady
      /\ wheel_on_calls = 0
      /\ ~motor_activated
      /\ ~last.act_reached /\ ~last.steady_called
      /\ steady_history = [k \in SteadyKeys |-> <<>>]
      /\ reason \in {"none", "threshold_exceeded", "time_limit_reached",
                      "source_exhausted", "source_error", "fault"}
      /\ pc = "loop" => reason = "none"

\* Speed and gimbal are configured and only steady_threshold is unset; the
\* initial-steady check was made on three readings or more and the source
\* ended with the wheel never activated.
C20_Witness ==
    /\ cfg.check_init_steady
    /\ cfg.steady_threshold = None
    /\ cfg.steady_window # None /\ cfg.steady_check_every # None
    /\ BothWheelArgs
    /\ cfg.defer_start = None
    /\ lines >= 3
    /\ last.init_called
    /\ reason = "source_exhausted"
    /\ pc = "returned"
    /\ wheel_on_calls = 0

====
